---- MODULE Spec2Model ----
(***************************************************************************)
(* Model of the k8s-collector delivery pipeline: Collector.Run of          *)
(* collector/collector.go (the errgroup-based uploader), the chunking      *)
(* loops of sendHelmReleases / sendK8sTree / sendK8sObjects, the tree      *)
(* builder k8stree.GetK8sTree and the data filters.                        *)
(***************************************************************************)
EXTENDS Integers, Sequences, FiniteSets, TLC

(***************************************************************************)
(* Bounds of the model.                                                    *)
(***************************************************************************)
\* longest cluster ID tried
MaxIdLen == 2
\* largest value of conf.MaxGoRoutines tried (0 .. MaxRoutines)
MaxRoutines == 2
\* most objects one run of the Kubernetes collector returns
MaxObjects == 2
\* most releases one run of the Helm collector returns
MaxReleases == 2
MaxChunkItems == 3
MaxTreeObjects == 4
\* serialized size of the release filter.ArgoFilter derives from an Argo
\* Application
ArgoReleaseSize == 300000

(***************************************************************************)
(* Program constants.                                                      *)
(***************************************************************************)
\* collector.go:376  MaxItemSize = 1024 * 1500
MaxItemSize == 1024 * 1500
\* config.go:248  conf.PageSize = parseInt(..., 500)
DefaultPageSize == 500

(***************************************************************************)
(* clusterIDRegex = ^[a-z0-9-_]+$  (collector.go:419).  A cluster ID is a  *)
(* sequence of one-character strings.                                      *)
(***************************************************************************)
LowerChars == {"a", "b", "c", "d", "e", "f", "g", "h", "i", "j", "k", "l", "m",
               "n", "o", "p", "q", "r", "s", "t", "u", "v", "w", "x", "y", "z"}
DigitChars == {"0", "1", "2", "3", "4", "5", "6", "7", "8", "9"}

\* the character class [a-z0-9-_]
ClusterIDClass == LowerChars \cup DigitChars \cup {"-", "_"}

\* a match that is not anchored: some class character anywhere in the text
MatchStringUnanchored(id) == \E i \in 1..Len(id) : id[i] \in ClusterIDClass

\* clusterIDRegex.MatchString(id): one or more class characters, anchored at
\* both ends of the text
MatchString(id) == Len(id) >= 1 /\ \A i \in 1..Len(id) : id[i] \in ClusterIDClass

\* the characters cluster IDs are drawn from
IdAlphabet == {"a", "0", "-", "_", "M", " "}

RECURSIVE SeqsUpTo(_, _)
SeqsUpTo(S, n) ==
    IF n = 0 THEN {<<>>}
    ELSE LET shorter == SeqsUpTo(S, n - 1)
         IN  shorter \cup {Append(s, x) : s \in {t \in shorter : Len(t) = n - 1}, x \in S}

ClusterIDs == SeqsUpTo(IdAlphabet, MaxIdLen)

(***************************************************************************)
(* Collected data.  A Kubernetes object (k8s.KubernetesObject) is a record *)
(*   uid, ns, name       : identity, each a sequence of characters         *)
(*   kind                : the resource kind                               *)
(*   owners              : metadata.ownerReferences, as a sequence of uids *)
(*   size                : length of json.Marshal of the item              *)
(*   ok                  : json.Marshal of the item succeeds               *)
(*   helmApp             : an Argo Application whose status.sourceType is  *)
(*                         "Helm" (read by filter.ArgoFilter)              *)
(* A Helm release is a record id, size, ok.                                *)
(***************************************************************************)
Obj(uid, kind, ns, name, owners, size, ok, helmApp) ==
    [uid |-> uid, kind |-> kind, ns |-> ns, name |-> name, owners |-> owners,
     size |-> size, ok |-> ok, helmApp |-> helmApp]

\* the objects the Kubernetes API may list, in the order the API lists them
ObjectUniverse ==
    << Obj(<<"i">>, "Ingress", <<"d">>, <<"i">>, <<>>, 600000, TRUE, FALSE),
       Obj(<<"n">>, "Namespace", <<>>, <<"d">>, <<>>, 300000, TRUE, FALSE),
       Obj(<<"p">>, "Pod", <<"d">>, <<"p">>, << <<"n">> >>, 300000, TRUE, FALSE),
       Obj(<<"s">>, "Service", <<"d">>, <<"s">>, <<>>, 600000, TRUE, FALSE),
       Obj(<<"e">>, "Endpoints", <<"d">>, <<"s">>, <<>>, 1600000, TRUE, FALSE),
       Obj(<<"a">>, "Application", <<"d">>, <<"a">>, <<>>, 600000, FALSE, TRUE) >>

\* the releases the Helm SDK may list
ReleaseUniverse ==
    << [id |-> "r1", size |-> 600000, ok |-> TRUE],
       [id |-> "r2", size |-> 300000, ok |-> TRUE],
       [id |-> "r3", size |-> 600000, ok |-> TRUE],
       [id |-> "r4", size |-> 300000, ok |-> FALSE] >>

\* the resource types the discovery API may list
TypeUniverse == << [kind |-> "Pod", namespaced |-> TRUE] >>

\* the subsequence of u at the positions of S
RECURSIVE SelectFrom(_, _, _)
SelectFrom(u, S, i) ==
    IF i > Len(u) THEN <<>>
    ELSE IF i \in S THEN <<u[i]>> \o SelectFrom(u, S, i + 1)
    ELSE SelectFrom(u, S, i + 1)

SubSeqs(u, max) ==
    {SelectFrom(u, S, 1) : S \in {T \in SUBSET (1..Len(u)) : Cardinality(T) <= max}}

ObjectInputs == SubSeqs(ObjectUniverse, MaxObjects)
ReleaseInputs == SubSeqs(ReleaseUniverse, MaxReleases)
TypeInputs == {TypeUniverse}

(***************************************************************************)
(* The chunking loop shared by sendK8sObjects (collector.go:643-663),      *)
(* sendHelmReleases (740-753) and sendK8sTree (808-845).  Each input item  *)
(* is first reduced to an entry: keep (the item is appended to the current *)
(* page), bytes (what it adds to totalBytes) and item (what is appended).  *)
(***************************************************************************)
\* a loop that puts the newest item first in its page
RECURSIVE ChunkLoopNewestFirst(_, _, _, _, _, _)
ChunkLoopNewestFirst(entries, budget, i, totalBytes, objects, chunks) ==
    IF i > Len(entries) THEN chunks
    ELSE LET e == entries[i]
             total == IF e.keep THEN totalBytes + e.bytes ELSE totalBytes
             objs == IF e.keep THEN <<e.item>> \o objects ELSE objects
         IN  IF total > budget \/ i = Len(entries)
             THEN ChunkLoopNewestFirst(entries, budget, i + 1, 0, <<>>,
                                       Append(chunks, objs))
             ELSE ChunkLoopNewestFirst(entries, budget, i + 1, total, objs, chunks)

\* the loop body for idx = i .. len(data)-1, with the loop's local variables
RECURSIVE ChunkLoop(_, _, _, _, _, _)
ChunkLoop(entries, budget, i, totalBytes, objects, chunks) ==
    IF i > Len(entries) THEN chunks
    ELSE LET e == entries[i]
             total == IF e.keep THEN totalBytes + e.bytes ELSE totalBytes
             objs == IF e.keep THEN Append(objects, e.item) ELSE objects
         IN  IF total > budget \/ i = Len(entries)
             THEN ChunkLoop(entries, budget, i + 1, 0, <<>>, Append(chunks, objs))
             ELSE ChunkLoop(entries, budget, i + 1, total, objs, chunks)

\* sendK8sObjects: a marshal error or an item above MaxItemSize is skipped
ObjectEntry(obj) ==
    [keep |-> obj.ok /\ obj.size <= MaxItemSize, bytes |-> obj.size, item |-> obj]

\* sendHelmReleases: the marshal error is ignored (bytes is then empty) and
\* the item is always appended
ReleaseEntry(rel) ==
    [keep |-> TRUE, bytes |-> IF rel.ok THEN rel.size ELSE 0, item |-> rel]

\* json.Marshal of a tree: the node's object and, nested, its children
RECURSIVE TreeBytes(_)
TreeBytes(tree) ==
    LET RECURSIVE Sum(_)
        Sum(i) == IF i > Len(tree.children) THEN 0
                  ELSE TreeBytes(tree.children[i]) + Sum(i + 1)
    IN  tree.size + Sum(1)

RECURSIVE TreeMarshals(_)
TreeMarshals(tree) ==
    tree.ok /\ \A i \in 1..Len(tree.children) : TreeMarshals(tree.children[i])

\* sendK8sTree: the root's name is cleared before marshalling; a childless
\* root that is no Ingress or Provisioner, a marshal error and a tree above
\* MaxItemSize are skipped
TreeEntry(tree) ==
    [keep |-> /\ ~(Len(tree.children) = 0 /\ tree.kind # "Ingress" /\ tree.kind # "Provisioner")
              /\ TreeMarshals(tree)
              /\ TreeBytes(tree) <= MaxItemSize,
     bytes |-> TreeBytes(tree),
     item |-> [tree EXCEPT !.name = <<>>]]

Entries(fam, data) ==
    [i \in 1..Len(data) |->
        CASE fam = "helm" -> ReleaseEntry(data[i])
          [] fam = "tree" -> TreeEntry(data[i])
          [] OTHER -> ObjectEntry(data[i])]

\* the pages a send function builds from its data
Chunks(fam, data, pageSize) ==
    ChunkLoop(Entries(fam, data), pageSize * 1000, 1, 0, <<>>, <<>>)

(***************************************************************************)
(* k8stree.GetK8sTree, the variant with heuristic parents.  The objects of *)
(* the input are maps shared by every slice that holds them, so            *)
(* obj.SetOwnerReferences changes the object wherever it is held: refs is  *)
(* the current owner-reference list of every object, by uid.               *)
(***************************************************************************)
\* strings.Split(s, sep) for a one-character separator
RECURSIVE Split(_, _)
Split(s, sep) ==
    IF \A i \in 1..Len(s) : s[i] # sep THEN <<s>>
    ELSE LET i == CHOOSE k \in 1..Len(s) : s[k] = sep /\ \A j \in 1..(k - 1) : s[j] # sep
         IN  <<SubSeq(s, 1, i - 1)>> \o Split(SubSeq(s, i + 1, Len(s)), sep)

\* strings.Join(parts, sep)
RECURSIVE Join(_, _)
Join(parts, sep) ==
    IF Len(parts) = 0 THEN <<>>
    ELSE IF Len(parts) = 1 THEN parts[1]
    ELSE parts[1] \o <<sep>> \o Join(Tail(parts), sep)

HasSuffix(s, suffix) ==
    Len(suffix) <= Len(s) /\ SubSeq(s, Len(s) - Len(suffix) + 1, Len(s)) = suffix

\* the owner references of the input objects
RefsOf(objects) ==
    [u \in {objects[i].uid : i \in 1..Len(objects)} |->
        LET i == CHOOSE k \in 1..Len(objects) :
                    /\ objects[k].uid = u
                    /\ \A j \in (k + 1)..Len(objects) : objects[j].uid # u
        IN  objects[i].owners]

\* the key under which getSpecialParents files an object
SpecialKey(obj) ==
    IF obj.kind = "PersistentVolumeClaim" THEN <<"p", "v", "c", "-">> \o obj.uid
    ELSE obj.ns \o <<"/">> \o obj.name

SpecialParentsKind == {"Service", "StatefulSet", "PersistentVolumeClaim"}

\* specialParents[kind]: the keys filed under kind, each with the last object
\* of the input that has the key
getSpecialParents(objects, kind) ==
    LET idx == {i \in 1..Len(objects) :
                    objects[i].kind = kind /\ kind \in SpecialParentsKind}
    IN  [key \in {SpecialKey(objects[i]) : i \in idx} |->
            objects[CHOOSE i \in idx :
                        /\ SpecialKey(objects[i]) = key
                        /\ \A j \in idx : SpecialKey(objects[j]) = key => j <= i]]

\* the StatefulSets whose name begins the claim's name without its index
StatefulSetMatchesPrefix(obj, objects) ==
    LET pvcSplitName == Split(obj.name, "-")
        pvcNameWithoutIndex == Join(SubSeq(pvcSplitName, 1, Len(pvcSplitName) - 1), "-")
        sets == getSpecialParents(objects, "StatefulSet")
    IN  IF Len(pvcSplitName) = 1 THEN {}
        ELSE {sets[k].uid : k \in {key \in DOMAIN sets :
                    /\ obj.ns = sets[key].ns
                    /\ SubSeq(pvcNameWithoutIndex, 1, Len(sets[key].name))
                            = sets[key].name}}

\* the StatefulSets the funk.Find of specialChildren may return for a claim:
\* any one of those in the claim's namespace whose name is a suffix of the
\* claim's name without its last dash-separated part (the map is visited in
\* no fixed order)
StatefulSetMatches(obj, objects) ==
    LET pvcSplitName == Split(obj.name, "-")
        pvcNameWithoutIndex == Join(SubSeq(pvcSplitName, 1, Len(pvcSplitName) - 1), "-")
        sets == getSpecialParents(objects, "StatefulSet")
    IN  IF Len(pvcSplitName) = 1 THEN {}
        ELSE {sets[k].uid : k \in {key \in DOMAIN sets :
                    /\ obj.ns = sets[key].ns
                    /\ HasSuffix(pvcNameWithoutIndex, sets[key].name)}}

\* no heuristic parents
specialChildrenNone(obj, objects, pick) == <<>>

\* specialChildren: the synthetic owner references of obj, <<>> when it has
\* none; pick is the StatefulSet funk.Find returned for each claim
specialChildren(obj, objects, pick) ==
    CASE obj.kind = "Endpoints" ->
            LET services == getSpecialParents(objects, "Service")
                key == obj.ns \o <<"/">> \o obj.name
            IN  IF key \in DOMAIN services THEN <<services[key].uid>> ELSE <<>>
      [] obj.kind = "PersistentVolume" ->
            LET claims == getSpecialParents(objects, "PersistentVolumeClaim")
            IN  IF obj.name \in DOMAIN claims THEN <<claims[obj.name].uid>> ELSE <<>>
      [] obj.kind = "PersistentVolumeClaim" ->
            IF StatefulSetMatches(obj, objects) = {} THEN <<>> ELSE <<pick[obj.uid]>>
      [] OTHER -> <<>>

\* the choices of pick for an input
Picks(objects) ==
    LET claims == {i \in 1..Len(objects) : objects[i].kind = "PersistentVolumeClaim"}
        none == <<>>
    IN  {p \in [{objects[i].uid : i \in claims} ->
                    {objects[i].uid : i \in 1..Len(objects)} \cup {none}] :
            \A i \in claims :
                IF StatefulSetMatches(objects[i], objects) = {}
                THEN p[objects[i].uid] = none
                ELSE p[objects[i].uid] \in StatefulSetMatches(objects[i], objects)}

TreeNode(obj) ==
    [uid |-> obj.uid, kind |-> obj.kind, name |-> obj.name, children |-> <<>>,
     size |-> obj.size, ok |-> obj.ok]

\* getSourceParents: the roots, the remaining objects and the owner
\* references after the synthetic ones were set
RECURSIVE getSourceParentsLoop(_, _, _, _, _, _)
getSourceParentsLoop(objects, pick, i, sourceParents, remainingChildren, refs) ==
    IF i > Len(objects)
    THEN [sourceParents |-> sourceParents, remainingChildren |-> remainingChildren,
          refs |-> refs]
    ELSE LET obj == objects[i]
             newObjOwners == specialChildren(obj, objects, pick)
         IN  IF Len(refs[obj.uid]) = 0
             THEN IF Len(newObjOwners) > 0
                  THEN getSourceParentsLoop(objects, pick, i + 1, sourceParents,
                            Append(remainingChildren, obj),
                            [refs EXCEPT ![obj.uid] = newObjOwners])
                  ELSE getSourceParentsLoop(objects, pick, i + 1,
                            Append(sourceParents, TreeNode(obj)),
                            remainingChildren, refs)
             ELSE getSourceParentsLoop(objects, pick, i + 1, sourceParents,
                            Append(remainingChildren, obj), refs)

getSourceParents(objects, pick) ==
    getSourceParentsLoop(objects, pick, 1, <<>>, <<>>, RefsOf(objects))

subtractUnstructuredObjects(a, b) ==
    SelectSeq(a, LAMBDA x : \A j \in 1..Len(b) : b[j].uid # x.uid)

\* a subtraction that drops every reference
subtractOwnerReferencesAll(a, b) == <<>>

subtractOwnerReferences(a, b) ==
    SelectSeq(a, LAMBDA x : \A j \in 1..Len(b) : b[j] # x)

\* createTrees: the loop over objects from position i, with the tree built so
\* far, the children found so far and the current owner references
RECURSIVE createTreesLoop(_, _, _, _, _)
createTreesLoop(objectsTree, objects, i, foundChildren, refs) ==
    IF i > Len(objects)
    THEN [tree |-> objectsTree, foundChildren |-> foundChildren, refs |-> refs]
    ELSE LET obj == objects[i]
             ownerReference == refs[obj.uid]
         IN  IF \E k \in 1..Len(ownerReference) : ownerReference[k] = objectsTree.uid
             THEN LET left == subtractOwnerReferences(ownerReference, <<objectsTree.uid>>)
                      refs1 == [refs EXCEPT ![obj.uid] = left]
                      found1 == IF Len(left) = 0 THEN Append(foundChildren, obj)
                                ELSE foundChildren
                      remainingChildren == subtractUnstructuredObjects(objects, found1)
                      sub == createTreesLoop(TreeNode(obj), remainingChildren, 1, <<>>, refs1)
                  IN  createTreesLoop(
                          [objectsTree EXCEPT !.children = Append(@, sub.tree)],
                          objects, i + 1, found1 \o sub.foundChildren, sub.refs)
             ELSE createTreesLoop(objectsTree, objects, i + 1, foundChildren, refs)

createTrees(objectsTree, objects, refs) ==
    createTreesLoop(objectsTree, objects, 1, <<>>, refs)

\* GetK8sTree: the loop over the roots
RECURSIVE GetK8sTreeLoop(_, _, _, _, _)
GetK8sTreeLoop(sourceParents, i, remaining, objectsTrees, refs) ==
    IF i > Len(sourceParents)
    THEN [trees |-> objectsTrees, refs |-> refs]
    ELSE LET r == createTrees(sourceParents[i], remaining, refs)
         IN  GetK8sTreeLoop(sourceParents, i + 1,
                            subtractUnstructuredObjects(remaining, r.foundChildren),
                            Append(objectsTrees, r.tree), r.refs)

\* a forest in which every object is a root
GetK8sTreeAllRoots(objects, pick) ==
    [trees |-> [i \in 1..Len(objects) |-> TreeNode(objects[i])],
     refs |-> RefsOf(objects)]

\* the forest, and the owner references GetK8sTree leaves in the objects
GetK8sTree(objects, pick) ==
    LET sp == getSourceParents(objects, pick)
    IN  GetK8sTreeLoop(sp.sourceParents, 1, sp.remainingChildren, <<>>, sp.refs)

\* the input objects as GetK8sTree leaves them
WithRefs(objects, refs) ==
    [i \in 1..Len(objects) |-> [objects[i] EXCEPT !.owners = refs[objects[i].uid]]]

(***************************************************************************)
(* filter.ArgoFilter (the only member of filter.All): every Application    *)
(* object whose source type is Helm adds a release to helm_releases.       *)
(***************************************************************************)
RECURSIVE ArgoFilterLoop(_, _, _)
ArgoFilterLoop(objects, i, releases) ==
    IF i > Len(objects) THEN releases
    ELSE IF objects[i].kind = "Application" /\ objects[i].helmApp
         THEN ArgoFilterLoop(objects, i + 1,
                  Append(releases, [id |-> objects[i].uid, size |-> ArgoReleaseSize,
                                    ok |-> TRUE]))
         ELSE ArgoFilterLoop(objects, i + 1, releases)

ArgoFilter(data) ==
    [data EXCEPT !.helm_releases = ArgoFilterLoop(data.k8s_objects, 1, @)]

(***************************************************************************)
(* The data collectors, in the order main.go hands them to collector.New,  *)
(* and what each Run can return: <<keyName, data, failed>>.                *)
(***************************************************************************)
dataCollectors == <<"k8s", "helm", "k8stypes">>

CollectorOutputs(dc) ==
    CASE dc = "k8s" ->
            {<<"k8s_objects", objs, FALSE>> : objs \in ObjectInputs}
                \cup {<<"k8s_objects", <<>>, TRUE>>}
      [] dc = "helm" ->
            {<<"helm_releases", rels, FALSE>> : rels \in ReleaseInputs}
                \cup {<<"", <<>>, TRUE>>}
      [] OTHER ->
            {<<"k8s_types", types, FALSE>> : types \in TypeInputs}
                \cup {<<"", <<>>, TRUE>>}

(***************************************************************************)
(* config.LoadConfig.  The environment is a record                         *)
(*   dryRun                   : the dryRun argument                        *)
(*   accessKey, secretKey     : the two environment variables              *)
(*   watchNamespace           : collector.watchNamespace, trimmed          *)
(*   ignoreNamespaces         : the lines of collector.ignoreNamespaces    *)
(*   resources[kind]          : collector.resources.<kind>, trimmed        *)
(*   pageSize, maxGoRoutines  : the two files, as sequences of characters  *)
(*   apiFails                 : the kinds whose List the API server fails  *)
(* A file that does not exist reads as the empty string (etcConfig).       *)
(***************************************************************************)
DefaultMaxGoRoutines == 50

\* funcs of k8s.Collector.Run lists nineteen kinds; three of them are kept,
\* in the order of funcs, with the defaults LoadConfig gives their flags
FetchKinds == <<"ConfigMap", "Event", "Pod">>

FetchKindSet == {FetchKinds[i] : i \in 1..Len(FetchKinds)}

FetchDefault == [kind \in FetchKindSet |-> kind # "Event"]

Spaces == {" ", "\t", "\n", "\r"}

\* strings.TrimSpace
RECURSIVE TrimSpace(_)
TrimSpace(str) ==
    IF Len(str) = 0 THEN str
    ELSE IF str[1] \in Spaces THEN TrimSpace(Tail(str))
    ELSE IF str[Len(str)] \in Spaces THEN TrimSpace(SubSeq(str, 1, Len(str) - 1))
    ELSE str

DigitSeq == <<"0", "1", "2", "3", "4", "5", "6", "7", "8", "9">>

IsDigit(c) == \E d \in 1..Len(DigitSeq) : DigitSeq[d] = c

DigitValue(c) == (CHOOSE d \in 1..Len(DigitSeq) : DigitSeq[d] = c) - 1

RECURSIVE DigitsValue(_, _)
DigitsValue(str, acc) ==
    IF Len(str) = 0 THEN acc
    ELSE DigitsValue(Tail(str), acc * 10 + DigitValue(str[1]))

\* strconv.Atoi: an optional sign followed by at least one digit
Atoi(str) ==
    LET signed == Len(str) > 0 /\ str[1] \in {"+", "-"}
        digits == IF signed THEN Tail(str) ELSE str
    IN  IF Len(digits) = 0 \/ \E i \in 1..Len(digits) : ~IsDigit(digits[i])
        THEN [err |-> TRUE, n |-> 0]
        ELSE [err |-> FALSE,
              n |-> IF signed /\ str[1] = "-" THEN 0 - DigitsValue(digits, 0)
                    ELSE DigitsValue(digits, 0)]

\* strconv.Itoa of a natural number
RECURSIVE Itoa(_)
Itoa(n) ==
    IF n < 10 THEN <<DigitSeq[n + 1]>>
    ELSE Itoa(n \div 10) \o <<DigitSeq[(n % 10) + 1]>>

parseInt(str, defVal) ==
    LET asInt == Atoi(TrimSpace(str))
    IN  IF asInt.err THEN defVal ELSE asInt.n

parseOne(str, defVal) == IF str = "" THEN defVal ELSE str

parseMultiple(lines, defVal) == IF Len(lines) = 0 THEN defVal ELSE lines

\* strconv.ParseBool accepts these spellings
parseBool(str, defVal) ==
    IF str = "" THEN defVal
    ELSE IF str \in {"1", "t", "T", "TRUE", "true", "True"} THEN TRUE
    ELSE IF str \in {"0", "f", "F", "FALSE", "false", "False"} THEN FALSE
    ELSE defVal

\* the nil *Config
NilConfig == [nil |-> TRUE]

\* a LoadConfig that wants the keys also for a dry run
LoadConfigKeysAlways(e) ==
    IF e.accessKey = "" \/ e.secretKey = ""
    THEN [conf |-> NilConfig, err |-> "ErrAccessKeys"]
    ELSE [conf |-> [DryRun |-> e.dryRun,
                    AccessKey |-> e.accessKey,
                    SecretKey |-> e.secretKey,
                    Namespace |-> parseOne(e.watchNamespace, ""),
                    IgnoreNamespaces |-> parseMultiple(e.ignoreNamespaces, <<>>),
                    Fetch |-> [kind \in FetchKindSet |->
                                  parseBool(e.resources[kind], FetchDefault[kind])],
                    PageSize |-> parseInt(e.pageSize, DefaultPageSize),
                    MaxGoRoutines |-> parseInt(e.maxGoRoutines, DefaultMaxGoRoutines)],
          err |-> "nil"]

LoadConfig(e) ==
    IF ~e.dryRun /\ (e.accessKey = "" \/ e.secretKey = "")
    THEN [conf |-> NilConfig, err |-> "ErrAccessKeys"]
    ELSE [conf |-> [DryRun |-> e.dryRun,
                    AccessKey |-> e.accessKey,
                    SecretKey |-> e.secretKey,
                    Namespace |-> parseOne(e.watchNamespace, ""),
                    IgnoreNamespaces |-> parseMultiple(e.ignoreNamespaces, <<>>),
                    Fetch |-> [kind \in FetchKindSet |->
                                  parseBool(e.resources[kind], FetchDefault[kind])],
                    PageSize |-> parseInt(e.pageSize, DefaultPageSize),
                    MaxGoRoutines |-> parseInt(e.maxGoRoutines, DefaultMaxGoRoutines)],
          err |-> "nil"]

includes(list, value) == \E i \in 1..Len(list) : list[i] = value

IgnoreNamespace(c, ns) ==
    IF c.Namespace # "" /\ ns # c.Namespace THEN FALSE
    ELSE IF Len(c.IgnoreNamespaces) > 0 THEN includes(c.IgnoreNamespaces, ns)
    ELSE FALSE

\* the environments LoadConfig is called with
Envs ==
    [dryRun : BOOLEAN, accessKey : {"", "key"}, secretKey : {"", "key"},
     watchNamespace : {"", "d"}, ignoreNamespaces : {<<>>, <<"k">>, <<"d">>},
     resources : [FetchKindSet -> {"", "true", "false"}],
     pageSize : {<<>>},
     maxGoRoutines : {<<>>, <<"0">>, <<" ", "2">>, <<"x">>},
     apiFails : SUBSET FetchKindSet]

\* an environment from which LoadConfig gives the configuration c
EnvOf(c) ==
    [dryRun |-> c.DryRun, accessKey |-> "key", secretKey |-> "key",
     watchNamespace |-> "", ignoreNamespaces |-> <<>>,
     resources |-> [kind \in FetchKindSet |-> ""],
     pageSize |-> Itoa(c.PageSize), maxGoRoutines |-> Itoa(c.MaxGoRoutines),
     apiFails |-> {}]

(***************************************************************************)
(* k8s.Collector.Run and its fetch functions.                              *)
(***************************************************************************)
\* what the API server lists for a kind
ApiItems ==
    [kind \in FetchKindSet |->
        CASE kind = "ConfigMap" -> << [ns |-> "d", name |-> "c"] >>
          [] kind = "Event" -> << [ns |-> "k", name |-> "v"] >>
          [] OTHER -> << [ns |-> "d", name |-> "p"], [ns |-> "k", name |-> "q"] >>]

\* a fetch function (getPods, getEvents, getConfigMaps): the List, then the
\* items the namespace filter lets through
getItems(kind, c, e) ==
    IF kind \in e.apiFails THEN [err |-> TRUE, items |-> <<>>]
    ELSE [err |-> FALSE,
          items |-> SelectSeq(ApiItems[kind], LAMBDA item : ~IgnoreNamespace(c, item.ns))]

\* the loop over funcs from position i
RECURSIVE k8sRunLoop(_, _, _, _, _)
k8sRunLoop(c, e, i, objects, numFailed) ==
    IF i > Len(FetchKinds)
    THEN [keyName |-> "k8s_objects", objects |-> objects,
          err |-> numFailed = Len(FetchKinds)]
    ELSE LET kind == FetchKinds[i]
             r == getItems(kind, c, e)
         IN  IF ~c.Fetch[kind] THEN k8sRunLoop(c, e, i + 1, objects, numFailed)
             ELSE IF r.err THEN k8sRunLoop(c, e, i + 1, objects, numFailed + 1)
             ELSE k8sRunLoop(c, e, i + 1,
                      objects \o [j \in 1..Len(r.items) |->
                                     [kind |-> kind, object |-> r.items[j]]],
                      numFailed)

\* a loop over funcs that calls every fetch function
RECURSIVE k8sRunLoopAllKinds(_, _, _, _, _)
k8sRunLoopAllKinds(c, e, i, objects, numFailed) ==
    IF i > Len(FetchKinds)
    THEN [keyName |-> "k8s_objects", objects |-> objects,
          err |-> numFailed = Len(FetchKinds)]
    ELSE LET kind == FetchKinds[i]
             r == getItems(kind, c, e)
         IN  IF r.err THEN k8sRunLoopAllKinds(c, e, i + 1, objects, numFailed + 1)
             ELSE k8sRunLoopAllKinds(c, e, i + 1,
                      objects \o [j \in 1..Len(r.items) |->
                                     [kind |-> kind, object |-> r.items[j]]],
                      numFailed)

\* a collector that does not look at the fetch flags
k8sRunAllKinds(c, e) == k8sRunLoopAllKinds(c, e, 1, <<>>, 0)

\* k8s.Collector.Run: keyName, objects and whether it returns an error
k8sRun(c, e) == k8sRunLoop(c, e, 1, <<>>, 0)

NoPut == [none |-> TRUE]

(***************************************************************************)
(* State of one execution of Collector.Run.                                *)
(***************************************************************************)
VARIABLES
    clusterID,    \* f.clusterID
    conf,         \* f.conf: DryRun, MaxGoRoutines, PageSize
    pc,           \* position of Run
    ret,          \* what Run returned: "running", "nil" or the error
    logins,       \* number of POST /account/access_keys/login requests issued
    client,       \* f.client is set (authenticate succeeded)
    heads,        \* number of HEAD .../fetching requests issued
    fetchingId,   \* the fetching ID, "" before it is set
    dcIdx,        \* index of the next data collector to run
    fullData,     \* the collected data by key
    k8sTree,      \* the forest returned by GetK8sTree
    stdout,       \* the data was written to standard output
    fam,          \* the family whose send function is executing
    chunks,       \* chunks[fam]: the pages built by the send function of fam
    next,         \* index of the next page the dispatch loop handles
    sem,          \* number of elements in the channel concurrentGoroutines
    wst,          \* wst[fam][i]: state of the goroutine of page i
    gerr,         \* gerr[fam]: page whose error the errgroup kept, 0 if none
    finished,     \* the families whose send function has returned
    commits,      \* number of PATCH .../fetching requests issued
    commitOk,     \* the PATCH returned 204
    env,          \* the environment variables and configuration files that
                  \* LoadConfig reads and what the Kubernetes API lists
    put           \* the body of the PUT request of send, NoPut before it

vars == <<clusterID, conf, pc, ret, logins, client, heads, fetchingId, dcIdx,
          fullData, k8sTree, stdout, fam, chunks, next, sem, wst, gerr, finished,
          commits, commitOk, env, put>>

Families == {"helm", "tree", "objects"}

sessionVars == <<logins, client, heads, fetchingId>>
dataVars == <<dcIdx, fullData, k8sTree, stdout>>
groupVars == <<fam, chunks, next, sem, wst, gerr>>
commitVars == <<finished, commits, commitOk>>

Init ==
    /\ clusterID \in ClusterIDs
    /\ conf \in [DryRun : BOOLEAN, MaxGoRoutines : 0..MaxRoutines,
                 PageSize : {DefaultPageSize}]
    /\ pc = "Run"
    /\ ret = "running"
    /\ logins = 0
    /\ client = FALSE
    /\ heads = 0
    /\ fetchingId = ""
    /\ dcIdx = 1
    /\ fullData = [k8s_objects |-> <<>>, helm_releases |-> <<>>, k8s_types |-> <<>>]
    /\ k8sTree = <<>>
    /\ stdout = FALSE
    /\ fam = "none"
    /\ chunks = [f \in Families |-> <<>>]
    /\ next = 1
    /\ sem = 0
    /\ wst = [f \in Families |-> <<>>]
    /\ gerr = [f \in Families |-> 0]
    /\ finished = {}
    /\ commits = 0
    /\ commitOk = FALSE
    /\ env = EnvOf(conf)
    /\ put = NoPut

\* Run returns
Return(value) ==
    /\ pc' = "done"
    /\ ret' = value

(***************************************************************************)
(* Collector.Run up to the delivery (collector.go:452-531).                *)
(***************************************************************************)
\* a cluster ID check after which also a dry run authenticates
VerifyClusterIDThenAuthenticate ==
    /\ pc = "Run"
    /\ IF ~MatchString(clusterID)
       THEN Return("invalid cluster ID")
       ELSE pc' = "authenticate" /\ ret' = ret
    /\ UNCHANGED <<env, put, clusterID, conf, logins, client, heads, fetchingId, dataVars,
                   groupVars, commitVars>>

\* the cluster ID check, and the skipped authentication and session of a
\* dry run
VerifyClusterID ==
    /\ pc = "Run"
    /\ IF ~MatchString(clusterID)
       THEN Return("invalid cluster ID") /\ UNCHANGED fetchingId
       ELSE IF conf.DryRun
            THEN pc' = "dataCollectors" /\ fetchingId' = "dry-run-fetching-id"
                 /\ ret' = ret
            ELSE pc' = "authenticate" /\ UNCHANGED <<fetchingId, ret>>
    /\ UNCHANGED <<env, put, clusterID, conf, logins, client, heads, dataVars, groupVars,
                   commitVars>>

\* an authentication whose failure Run ignores
authenticateIgnoringError ==
    /\ pc = "authenticate"
    /\ logins' = logins + 1
    /\ \E ok \in BOOLEAN : client' = ok
    /\ pc' = "getUniqueClusterId"
    /\ UNCHANGED <<env, put, clusterID, conf, ret, heads, fetchingId, dataVars, groupVars,
                   commitVars>>

\* f.authenticate: one login request; f.client is set when it succeeds
authenticate ==
    /\ pc = "authenticate"
    /\ logins' = logins + 1
    /\ \E ok \in BOOLEAN :
          IF ok
          THEN client' = TRUE /\ pc' = "getUniqueClusterId" /\ ret' = ret
          ELSE client' = client /\ Return("failed authenticating")
    /\ UNCHANGED <<env, put, clusterID, conf, heads, fetchingId, dataVars, groupVars,
                   commitVars>>

\* f.getUniqueClusterId: a read of the kube-system namespace
getUniqueClusterId ==
    /\ pc = "getUniqueClusterId"
    /\ \E ok \in BOOLEAN :
          IF ok
          THEN pc' = "startNewFetching" /\ ret' = ret
          ELSE Return("failed finding unique cluster ID")
    /\ UNCHANGED <<env, put, clusterID, conf, sessionVars, dataVars, groupVars, commitVars>>

\* a session open whose failure Run ignores
startNewFetchingIgnoringError ==
    /\ pc = "startNewFetching"
    /\ heads' = heads + 1
    /\ \E ok \in BOOLEAN : fetchingId' = IF ok THEN "fetching-id" ELSE fetchingId
    /\ pc' = "dataCollectors"
    /\ UNCHANGED <<env, put, clusterID, conf, ret, logins, client, dataVars, groupVars,
                   commitVars>>

\* f.startNewFetching: the HEAD request that opens the session
startNewFetching ==
    /\ pc = "startNewFetching"
    /\ heads' = heads + 1
    /\ \E ok \in BOOLEAN :
          IF ok
          THEN fetchingId' = "fetching-id" /\ pc' = "dataCollectors" /\ ret' = ret
          ELSE fetchingId' = fetchingId /\ Return("failed starting new fetching")
    /\ UNCHANGED <<env, put, clusterID, conf, logins, client, dataVars, groupVars, commitVars>>

\* one iteration of the loop over f.dataCollectors
RunDataCollector ==
    /\ pc = "dataCollectors"
    /\ dcIdx <= Len(dataCollectors)
    /\ \E out \in CollectorOutputs(dataCollectors[dcIdx]) :
          LET keyName == out[1]
              data == out[2]
              failed == out[3]
              store == IF keyName = "" THEN fullData
                       ELSE [fullData EXCEPT ![keyName] = data]
          IN  IF failed /\ keyName # "helm_releases"
              THEN Return("collector failed") /\ UNCHANGED <<dcIdx, fullData>>
              ELSE /\ fullData' = store
                   /\ dcIdx' = dcIdx + 1
                   /\ pc' = IF dcIdx = Len(dataCollectors) THEN "dataFilters" ELSE pc
                   /\ ret' = ret
    /\ UNCHANGED <<env, put, clusterID, conf, sessionVars, k8sTree, stdout, groupVars,
                   commitVars>>

\* the loop over f.dataFilters
RunDataFilters ==
    /\ pc = "dataFilters"
    /\ fullData' = ArgoFilter(fullData)
    /\ pc' = IF conf.DryRun THEN "encode" ELSE "sendHelmReleases"
    /\ UNCHANGED <<env, put, clusterID, conf, ret, sessionVars, dcIdx, k8sTree, stdout,
                   groupVars, commitVars>>

\* the collected data cannot be encoded when an item cannot be marshalled
Encodable(data) ==
    /\ \A i \in 1..Len(data.k8s_objects) : data.k8s_objects[i].ok
    /\ \A i \in 1..Len(data.helm_releases) : data.helm_releases[i].ok

\* dry run: the data is encoded to standard output and Run returns
EncodeDryRun ==
    /\ pc = "encode"
    /\ stdout' = Encodable(fullData)
    /\ IF Encodable(fullData) THEN Return("nil")
       ELSE Return("failed encoding collected data")
    /\ UNCHANGED <<env, put, clusterID, conf, sessionVars, dcIdx, fullData, k8sTree,
                   groupVars, commitVars>>

(***************************************************************************)
(* The delivery (collector.go:533-555 and the three send functions).  Run  *)
(* calls sendHelmReleases, GetK8sTree, sendK8sTree and sendK8sObjects in   *)
(* this order.  A send function returns at once when its data is empty;    *)
(* otherwise it builds the pages, starts one goroutine per page through    *)
(* the channel concurrentGoroutines and waits for the errgroup.            *)
(***************************************************************************)
\* the data a send function is called with
SendData(f) ==
    CASE f = "helm" -> fullData.helm_releases
      [] f = "tree" -> k8sTree
      [] OTHER -> fullData.k8s_objects

\* the len(data) == 0 check and the chunking loop of a send function; empty
\* is what the function does when it has no data
SendEntry(f, empty) ==
    IF Len(SendData(f)) = 0
    THEN empty /\ finished' = finished \cup {f} /\ UNCHANGED groupVars
    ELSE /\ finished' = finished
         /\ fam' = f
         /\ chunks' = [chunks EXCEPT ![f] = Chunks(f, SendData(f), conf.PageSize)]
         /\ wst' = [wst EXCEPT ![f] = [i \in 1..Len(chunks'[f]) |-> "queued"]]
         /\ next' = 1
         /\ sem' = 0
         /\ gerr' = gerr
         /\ pc' = "dispatch"
         /\ ret' = ret

sendHelmReleases ==
    /\ pc = "sendHelmReleases"
    /\ SendEntry("helm", pc' = "GetK8sTree" /\ ret' = ret)
    /\ UNCHANGED <<env, put, clusterID, conf, sessionVars, dataVars, commits, commitOk>>

\* k8stree.GetK8sTree(fullData["k8s_objects"]): it never returns an error,
\* and it leaves its changes of the owner references in the objects
CallGetK8sTree ==
    /\ pc = "GetK8sTree"
    /\ \E pick \in Picks(fullData.k8s_objects) :
          LET r == GetK8sTree(fullData.k8s_objects, pick)
          IN  /\ k8sTree' = r.trees
              /\ fullData' = [fullData EXCEPT
                                !.k8s_objects = WithRefs(fullData.k8s_objects, r.refs)]
    /\ pc' = "sendK8sTree"
    /\ UNCHANGED <<env, put, clusterID, conf, ret, sessionVars, dcIdx, stdout, groupVars,
                   commitVars>>

sendK8sTree ==
    /\ pc = "sendK8sTree"
    /\ SendEntry("tree", pc' = "sendK8sObjects" /\ ret' = ret)
    /\ UNCHANGED <<env, put, clusterID, conf, sessionVars, dataVars, commits, commitOk>>

\* with no objects sendK8sObjects returns nil before the commit request
sendK8sObjects ==
    /\ pc = "sendK8sObjects"
    /\ SendEntry("objects", Return("nil"))
    /\ UNCHANGED <<env, put, clusterID, conf, sessionVars, dataVars, commits, commitOk>>

\* a dispatch loop without the channel
DispatchUnbounded ==
    /\ pc = "dispatch"
    /\ next <= Len(chunks[fam])
    /\ sem' = sem + 1
    /\ wst' = [wst EXCEPT ![fam][next] = "started"]
    /\ next' = next + 1
    /\ UNCHANGED <<env, put, clusterID, conf, pc, ret, sessionVars, dataVars, fam, chunks,
                   gerr, commitVars>>

\* one iteration of the dispatch loop: the send on the channel blocks while
\* the channel is full, then g.Go starts the goroutine of the page
Dispatch ==
    /\ pc = "dispatch"
    /\ next <= Len(chunks[fam])
    /\ sem < conf.MaxGoRoutines
    /\ sem' = sem + 1
    /\ wst' = [wst EXCEPT ![fam][next] = "started"]
    /\ next' = next + 1
    /\ UNCHANGED <<env, put, clusterID, conf, pc, ret, sessionVars, dataVars, fam, chunks,
                   gerr, commitVars>>

\* the goroutine of page i issues its POST; it consults nothing before
GoSend(f, i) ==
    /\ wst[f][i] = "started"
    /\ wst' = [wst EXCEPT ![f][i] = "inflight"]
    /\ UNCHANGED <<env, put, clusterID, conf, pc, ret, sessionVars, dataVars, fam, chunks,
                   next, sem, gerr, commitVars>>

WorkerSend == \E f \in Families : \E i \in 1..Len(wst[f]) : GoSend(f, i)

\* the POST of page i completes; the function returns and its deferred
\* receive frees one slot of the channel
GoReturn(f, i) ==
    /\ wst[f][i] = "inflight"
    /\ \E ok \in BOOLEAN :
          wst' = [wst EXCEPT ![f][i] = IF ok THEN "retOk" ELSE "retErr"]
    /\ sem' = sem - 1
    /\ UNCHANGED <<env, put, clusterID, conf, pc, ret, sessionVars, dataVars, fam, chunks,
                   next, gerr, commitVars>>

WorkerReturn == \E f \in Families : \E i \in 1..Len(wst[f]) : GoReturn(f, i)

\* the errgroup keeps the first error and marks the goroutine done
GoDone(f, i) ==
    /\ wst[f][i] \in {"retOk", "retErr"}
    /\ wst' = [wst EXCEPT ![f][i] = IF @ = "retOk" THEN "doneOk" ELSE "doneErr"]
    /\ gerr' = IF wst[f][i] = "retErr" /\ gerr[f] = 0
               THEN [gerr EXCEPT ![f] = i] ELSE gerr
    /\ UNCHANGED <<env, put, clusterID, conf, pc, ret, sessionVars, dataVars, fam, chunks,
                   next, sem, commitVars>>

WorkerDone == \E f \in Families : \E i \in 1..Len(wst[f]) : GoDone(f, i)

\* what a send function does once g.Wait() has returned: it returns the
\* group's error, or goes on (sendK8sObjects with the commit request)
AfterWait(failed) ==
    IF failed
    THEN /\ Return(CASE fam = "helm" -> "failed sending releases"
                     [] fam = "tree" -> "failed sending k8s objects tree"
                     [] OTHER -> "failed sending objects")
         /\ finished' = finished \cup {fam}
    ELSE /\ pc' = CASE fam = "helm" -> "GetK8sTree"
                    [] fam = "tree" -> "sendK8sObjects"
                    [] OTHER -> "lock"
         /\ finished' = IF fam = "objects" THEN finished ELSE finished \cup {fam}
         /\ ret' = ret

\* Wait that does not look at the group's error
WaitIgnoringError ==
    /\ pc = "dispatch"
    /\ next > Len(chunks[fam])
    /\ \A i \in 1..Len(wst[fam]) : wst[fam][i] \in {"doneOk", "doneErr"}
    /\ AfterWait(FALSE)
    /\ UNCHANGED <<env, put, clusterID, conf, sessionVars, dataVars, groupVars, commits,
                   commitOk>>

\* Wait that does not join the goroutines
WaitNoJoin ==
    /\ pc = "dispatch"
    /\ next > Len(chunks[fam])
    /\ AfterWait(gerr[fam] # 0)
    /\ UNCHANGED <<env, put, clusterID, conf, sessionVars, dataVars, groupVars, commits,
                   commitOk>>

\* Wait after which Run sends the objects right after the releases
WaitObjectsFirst ==
    /\ pc = "dispatch"
    /\ next > Len(chunks[fam])
    /\ \A i \in 1..Len(wst[fam]) : wst[fam][i] \in {"doneOk", "doneErr"}
    /\ IF gerr[fam] # 0 \/ fam # "helm"
       THEN AfterWait(gerr[fam] # 0)
       ELSE pc' = "sendK8sObjects" /\ finished' = finished \cup {fam} /\ ret' = ret
    /\ UNCHANGED <<env, put, clusterID, conf, sessionVars, dataVars, groupVars, commits,
                   commitOk>>

\* g.Wait() returns once the dispatch loop is over and every goroutine is
\* done
Wait ==
    /\ pc = "dispatch"
    /\ next > Len(chunks[fam])
    /\ \A i \in 1..Len(wst[fam]) : wst[fam][i] \in {"doneOk", "doneErr"}
    /\ AfterWait(gerr[fam] # 0)
    /\ UNCHANGED <<env, put, clusterID, conf, sessionVars, dataVars, groupVars, commits,
                   commitOk>>

\* a commit whose failure Run returns
LockFatal ==
    /\ pc = "lock"
    /\ commits' = commits + 1
    /\ \E ok \in BOOLEAN :
          /\ commitOk' = ok
          /\ IF ok THEN Return("nil") ELSE Return("failed sending objects")
    /\ finished' = finished \cup {"objects"}
    /\ UNCHANGED <<env, put, clusterID, conf, sessionVars, dataVars, groupVars>>

\* the PATCH that commits the session, at the end of sendK8sObjects; its
\* failure is logged and nil is returned
Lock ==
    /\ pc = "lock"
    /\ commits' = commits + 1
    /\ \E ok \in BOOLEAN : commitOk' = ok
    /\ Return("nil")
    /\ finished' = finished \cup {"objects"}
    /\ UNCHANGED <<env, put, clusterID, conf, sessionVars, dataVars, groupVars>>

Next ==
    \/ VerifyClusterID
    \/ authenticate
    \/ getUniqueClusterId
    \/ startNewFetching
    \/ RunDataCollector
    \/ RunDataFilters
    \/ EncodeDryRun
    \/ sendHelmReleases
    \/ CallGetK8sTree
    \/ sendK8sTree
    \/ sendK8sObjects
    \/ Dispatch
    \/ WorkerSend
    \/ WorkerReturn
    \/ WorkerDone
    \/ Wait
    \/ Lock

Spec == Init /\ [][Next]_vars

TypeOK ==
    /\ pc \in {"Run", "authenticate", "getUniqueClusterId", "startNewFetching",
               "dataCollectors", "dataFilters", "encode", "sendHelmReleases",
               "GetK8sTree", "sendK8sTree", "sendK8sObjects", "dispatch", "lock",
               "done"}
    /\ sem \in 0..conf.MaxGoRoutines
    /\ fam \in Families \cup {"none"}
    /\ finished \subseteq Families

(***************************************************************************)
(* Properties of the delivery pipeline.                                    *)
(***************************************************************************)
DoneStates == {"doneOk", "doneErr"}

\* the POST of page i of family f has been issued
PostIssued(f, i) == wst[f][i] \in {"inflight", "retOk", "retErr", "doneOk", "doneErr"}

\* the POST of page i of family f has failed
PostFailed(f, i) == wst[f][i] \in {"retErr", "doneErr"}

AnyPostIssued(f) == \E i \in 1..Len(wst[f]) : PostIssued(f, i)
AnyPostFailed(f) == \E i \in 1..Len(wst[f]) : PostFailed(f, i)

\* every goroutine of family f is done
AllDone(f) == \A i \in 1..Len(wst[f]) : wst[f][i] \in DoneStates

\* the send function of f has returned and every goroutine it started is done
FamilyFinished(f) == f \in finished /\ AllDone(f)

NoRemoteRequest ==
    /\ logins = 0
    /\ heads = 0
    /\ commits = 0
    /\ put = NoPut
    /\ \A f \in Families : ~AnyPostIssued(f)

\* C1: the commit request is issued only after every page of the three
\* families has been POSTed successfully; with a failed POST in any family
\* there is no commit request
CommitOnlyAfterAllChunks ==
    commits > 0 =>
        \A f \in Families :
            /\ Len(wst[f]) = Len(chunks[f])
            /\ \A i \in 1..Len(chunks[f]) : wst[f][i] = "doneOk"

CommitOnlyAfterAllChunksWitness ==
    /\ commits = 1
    /\ Len(chunks["helm"]) >= 2
    /\ Len(chunks["tree"]) >= 1
    /\ Len(chunks["objects"]) >= 1

NilRunCommittedOnce ==
    (pc = "done" /\ ret = "nil" /\ ~conf.DryRun /\ \E f \in Families : AnyPostIssued(f))
        => commits = 1

\* C4: a fatal failure is terminal: Run returns an error and no request of
\* a later phase is issued
FailedIsTerminal ==
    \* the login failed
    /\ (logins > 0 /\ ~client) =>
          /\ pc = "done" /\ ret = "failed authenticating"
          /\ heads = 0 /\ dcIdx = 1 /\ commits = 0
          /\ \A f \in Families : ~AnyPostIssued(f)
    \* the session open failed
    /\ (heads > 0 /\ fetchingId = "") =>
          /\ pc = "done" /\ ret = "failed starting new fetching"
          /\ dcIdx = 1 /\ commits = 0
          /\ \A f \in Families : ~AnyPostIssued(f)
    \* the read of the unique cluster ID failed
    /\ ret = "failed finding unique cluster ID" =>
          /\ pc = "done" /\ heads = 0 /\ dcIdx = 1 /\ commits = 0
          /\ \A f \in Families : ~AnyPostIssued(f)
    \* a data collector failed
    /\ ret = "collector failed" =>
          /\ pc = "done" /\ commits = 0
          /\ \A f \in Families : ~AnyPostIssued(f)
    \* a POST of a family failed
    /\ AnyPostFailed("helm") =>
          /\ ~AnyPostIssued("tree") /\ ~AnyPostIssued("objects") /\ commits = 0
          /\ pc = "done" => ret = "failed sending releases"
    /\ AnyPostFailed("tree") =>
          /\ ~AnyPostIssued("objects") /\ commits = 0
          /\ pc = "done" => ret = "failed sending k8s objects tree"
    /\ AnyPostFailed("objects") =>
          /\ commits = 0
          /\ pc = "done" => ret = "failed sending objects"
    \* once Run has returned, nothing is running
    /\ pc = "done" => ret # "running" /\ \A f \in Families : AllDone(f)

FailedIsTerminalWitness ==
    /\ pc = "done"
    /\ AnyPostFailed("helm")
    /\ Len(fullData.k8s_objects) >= 2

\* C5: once the errgroup of a family holds an error, no page of that family
\* whose POST was not yet issued is sent
NoSendAfterFailure ==
    [][\A f \in Families : \A i \in 1..Len(wst[f]) :
          (gerr[f] # 0 /\ ~PostIssued(f, i)) => ~PostIssued(f, i)']_vars

\* C6: the families never overlap: while a goroutine of one family is not
\* done, every goroutine of every other family is done
FamilyBarrier ==
    \A f \in Families : \A g \in Families \ {f} :
        (\E i \in 1..Len(wst[f]) : wst[f][i] \notin DoneStates) => AllDone(g)

FamilyBarrierWitness ==
    /\ Len(wst["helm"]) >= 2
    /\ \E i \in 1..Len(wst["tree"]) : wst["tree"][i] = "inflight"

\* C7: the goroutines of a family that were started and have not returned,
\* hence the POSTs in flight, are never more than MaxGoRoutines
BoundedConcurrency ==
    \A f \in Families :
        Cardinality({i \in 1..Len(wst[f]) : wst[f][i] \in {"started", "inflight"}})
            <= conf.MaxGoRoutines

BoundedConcurrencyWitness ==
    /\ pc = "dispatch"
    /\ conf.MaxGoRoutines >= 1
    /\ next <= Len(chunks[fam])
    /\ Cardinality({i \in 1..Len(wst[fam]) : wst[fam][i] = "inflight"})
          = conf.MaxGoRoutines

\* C8: when every POST succeeded and the commit request fails, Run returns
\* nil and the commit request is not repeated
CommitFailureNotFatal ==
    (commits > 0 /\ ~commitOk) => pc = "done" /\ ret = "nil" /\ commits = 1

CommitFailureNotFatalWitness ==
    commits = 1 /\ ~commitOk /\ pc = "done"

\* C9: with a cluster ID that is empty or has a character that is no
\* lowercase letter, digit, dash or underscore, Run returns an error before
\* any network call
InvalidClusterID(id) ==
    \/ Len(id) = 0
    \/ \E i \in 1..Len(id) : id[i] \notin LowerChars \cup DigitChars \cup {"-", "_"}

SessionBeforeData ==
    ~conf.DryRun =>
        /\ logins <= 1
        /\ heads <= 1
        /\ heads > 0 => logins = 1 /\ client
        /\ (\/ pc \in {"dataCollectors", "dataFilters"}
            \/ dcIdx > 1
            \/ ret = "collector failed"
            \/ commits > 0
            \/ \E f \in Families : AnyPostIssued(f))
              => logins = 1 /\ client /\ heads = 1 /\ fetchingId = "fetching-id"

SessionBeforeDataWitness ==
    ~conf.DryRun /\ commits = 1 /\ logins = 1 /\ heads = 1

(***************************************************************************)
(* The three send functions on their own: Run stands at the call of one of *)
(* them, with data drawn from lists of up to MaxChunkItems items, some of  *)
(* them above MaxItemSize, some that json.Marshal rejects.                 *)
(***************************************************************************)
ItemShapes ==
    {[size |-> 300000, ok |-> TRUE], [size |-> 600000, ok |-> TRUE],
     [size |-> 1600000, ok |-> TRUE], [size |-> 300000, ok |-> FALSE]}

\* a root is an Ingress or a Pod, without children or with one Pod as child
TreeShapes == {"Ingress", "Pod", "PodWithChild"}

PageSizes == {DefaultPageSize, 2 * DefaultPageSize}

\* the i-th item of an input list
ChunkObject(i, shape) ==
    Obj(<<ToString(i)>>, "Pod", <<"d">>, <<ToString(i)>>, <<>>, shape.size, shape.ok,
        FALSE)

ChunkRelease(i, shape) == [id |-> <<ToString(i)>>, size |-> shape.size, ok |-> shape.ok]

ChunkTree(i, shape, tshape) ==
    LET kind == IF tshape = "Ingress" THEN "Ingress" ELSE "Pod"
        child == TreeNode(Obj(<<ToString(i), "c">>, "Pod", <<"d">>, <<ToString(i), "c">>,
                              <<>>, 300000, TRUE, FALSE))
        root == TreeNode(Obj(<<ToString(i)>>, kind, <<"d">>, <<ToString(i)>>, <<>>,
                             shape.size, shape.ok, FALSE))
    IN  IF tshape = "PodWithChild" THEN [root EXCEPT !.children = <<child>>] ELSE root

ChunkObjectInputs ==
    UNION {{[i \in 1..n |-> ChunkObject(i, sh[i])] : sh \in [1..n -> ItemShapes]} :
              n \in 0..MaxChunkItems}

ChunkReleaseInputs ==
    UNION {{[i \in 1..n |-> ChunkRelease(i, sh[i])] : sh \in [1..n -> ItemShapes]} :
              n \in 0..MaxChunkItems}

ChunkTreeInputs ==
    UNION {{[i \in 1..n |-> ChunkTree(i, sh[i][1], sh[i][2])] :
                sh \in [1..n -> ItemShapes \X TreeShapes]} : n \in 0..MaxChunkItems}

\* the objects of a forest, as GetK8sTree leaves them
RECURSIVE ForestObjects(_)
ForestObjects(forest) ==
    IF Len(forest) = 0 THEN <<>>
    ELSE LET t == forest[1]
         IN  <<Obj(t.uid, t.kind, <<"d">>, t.name, <<>>, t.size, t.ok, FALSE)>>
                \o ForestObjects(t.children) \o ForestObjects(Tail(forest))

ChunkInit ==
    /\ clusterID = <<"a">>
    /\ conf \in [DryRun : {FALSE}, MaxGoRoutines : {MaxRoutines}, PageSize : PageSizes]
    /\ ret = "running"
    /\ logins = 1
    /\ client = TRUE
    /\ heads = 1
    /\ fetchingId = "fetching-id"
    /\ dcIdx = Len(dataCollectors) + 1
    /\ stdout = FALSE
    /\ \/ /\ pc = "sendHelmReleases"
          /\ \E rels \in ChunkReleaseInputs :
                fullData = [k8s_objects |-> <<>>, helm_releases |-> rels,
                            k8s_types |-> TypeUniverse]
          /\ k8sTree = <<>>
          /\ finished = {}
       \/ /\ pc = "sendK8sTree"
          /\ k8sTree \in ChunkTreeInputs
          /\ fullData = [k8s_objects |-> ForestObjects(k8sTree), helm_releases |-> <<>>,
                         k8s_types |-> TypeUniverse]
          /\ finished = {"helm"}
       \/ /\ pc = "sendK8sObjects"
          /\ \E objs \in ChunkObjectInputs :
                /\ fullData = [k8s_objects |-> objs, helm_releases |-> <<>>,
                               k8s_types |-> TypeUniverse]
                /\ k8sTree = [i \in 1..Len(objs) |-> TreeNode(objs[i])]
          /\ finished = {"helm", "tree"}
    \* the roots of the objects were sent by sendK8sTree before sendK8sObjects
    /\ chunks = [f \in Families |->
                    IF f = "tree" /\ pc = "sendK8sObjects"
                    THEN Chunks("tree", k8sTree, conf.PageSize) ELSE <<>>]
    /\ wst = [f \in Families |-> [i \in 1..Len(chunks[f]) |-> "doneOk"]]
    /\ fam = IF Len(chunks["tree"]) > 0 THEN "tree" ELSE "none"
    /\ next = Len(chunks["tree"]) + 1
    /\ sem = 0
    /\ gerr = [f \in Families |-> 0]
    /\ commits = 0
    /\ commitOk = FALSE
    /\ env = EnvOf(conf)
    /\ put = NoPut

ChunkNext ==
    \/ sendHelmReleases
    \/ sendK8sTree
    \/ sendK8sObjects

SpecChunk == ChunkInit /\ [][ChunkNext]_vars

(***************************************************************************)
(* Properties of the pages.                                                *)
(***************************************************************************)
\* a send function has just built its pages from SendData(fam)
Chunked == pc = "dispatch" /\ next = 1

\* the length of the serialization of an item of family f
ItemBytes(f, item) ==
    IF f = "tree" THEN TreeBytes(item) ELSE item.size

ItemMarshals(f, item) ==
    IF f = "tree" THEN TreeMarshals(item) ELSE item.ok

RECURSIVE ChunkBytes(_, _)
ChunkBytes(f, chunk) ==
    IF Len(chunk) = 0 THEN 0
    ELSE (IF ItemMarshals(f, chunk[1]) THEN ItemBytes(f, chunk[1]) ELSE 0)
            + ChunkBytes(f, Tail(chunk))

RECURSIVE Concat(_)
Concat(seqs) == IF Len(seqs) = 0 THEN <<>> ELSE seqs[1] \o Concat(Tail(seqs))

\* C11: every page but the last has a cumulative serialized size of at most
\* PageSize * 1000, here for the inputs none of whose items is by itself
\* above the budget (three items of 300 give one page each with a budget of
\* 500)
ChunkWithinBudget ==
    (/\ Chunked
     /\ \A k \in 1..Len(SendData(fam)) :
            ItemBytes(fam, SendData(fam)[k]) <= conf.PageSize * 1000)
        => \A i \in 1..(Len(chunks[fam]) - 1) :
                ChunkBytes(fam, chunks[fam][i]) <= conf.PageSize * 1000

\* the identity of an item of a page or of an input list
ItemId(f, item) == IF f = "helm" THEN item.id ELSE item.uid

\* the input item meets none of the reasons for which a send function
\* leaves an item out
Sendable(f, item) ==
    /\ ItemMarshals(f, item)
    /\ ItemBytes(f, item) <= MaxItemSize
    /\ f = "tree" => (Len(item.children) > 0 \/ item.kind \in {"Ingress", "Provisioner"})

\* C12: the pages, concatenated, hold items of the input in the order of the
\* input, no item twice, and every input item that is not left out is in a
\* page
OrderPreserved ==
    Chunked =>
        LET data == SendData(fam)
            flat == Concat(chunks[fam])
            pos(j) == CHOOSE k \in 1..Len(data) :
                          ItemId(fam, data[k]) = ItemId(fam, flat[j])
        IN  /\ \A j \in 1..Len(flat) :
                  \E k \in 1..Len(data) : ItemId(fam, data[k]) = ItemId(fam, flat[j])
            /\ \A j \in 1..Len(flat) : \A l \in (j + 1)..Len(flat) : pos(j) < pos(l)
            /\ \A k \in 1..Len(data) :
                  Sendable(fam, data[k]) =>
                      \E j \in 1..Len(flat) : ItemId(fam, flat[j]) = ItemId(fam, data[k])

\* three items, the second left out, the others on two pages
OrderPreservedWitness ==
    /\ Chunked
    /\ Len(SendData(fam)) = 3
    /\ ~Sendable(fam, SendData(fam)[2])
    /\ Len(chunks[fam]) = 2
    /\ Len(Concat(chunks[fam])) = 2

\* C13: in each of the three send functions no item whose serialization is
\* above MaxItemSize is placed in a page
OversizeDropped ==
    Chunked =>
        \A i \in 1..Len(chunks[fam]) : \A j \in 1..Len(chunks[fam][i]) :
            ItemBytes(fam, chunks[fam][i][j]) <= MaxItemSize

\* C14: no page that is POSTed is empty, also when items were left out
NoEmptyChunk ==
    \A f \in Families : \A i \in 1..Len(wst[f]) :
        PostIssued(f, i) => Len(chunks[f][i]) >= 1

(***************************************************************************)
(* GetK8sTree on its own: Run stands at the call of k8stree.GetK8sTree,    *)
(* the releases sent, with up to MaxTreeObjects objects of one scene of    *)
(* the cluster below, in any order.  The uids are unique.                  *)
(***************************************************************************)
K8sObject(uid, kind, name, owners) ==
    Obj(<<uid>>, kind, <<"d">>, name, [i \in 1..Len(owners) |-> <<owners[i]>>],
        300000, TRUE, FALSE)

K8sUniverse ==
    { \* a root, a dependant, a dependant of both, and a dependant of that
      K8sObject("n", "Namespace", <<"d">>, <<>>),
      K8sObject("b", "ReplicaSet", <<"b">>, <<"n">>),
      K8sObject("c", "Pod", <<"c">>, <<"n", "b">>),
      K8sObject("g", "Pod", <<"g">>, <<"c">>),
      \* two objects that own each other, one of them also owned by the root
      K8sObject("x", "Pod", <<"x">>, <<"n", "y">>),
      K8sObject("y", "Pod", <<"y">>, <<"x">>),
      \* a Service and the Endpoints of its name
      K8sObject("s", "Service", <<"s">>, <<>>),
      K8sObject("e", "Endpoints", <<"s">>, <<>>),
      \* a Service whose owner is not in the cluster, and its Endpoints
      K8sObject("q", "Service", <<"q">>, <<"z">>),
      K8sObject("f", "Endpoints", <<"q">>, <<>>),
      \* StatefulSets w and d, the claim d-w-0 and a claim without a dash
      K8sObject("t", "StatefulSet", <<"w">>, <<>>),
      K8sObject("u", "StatefulSet", <<"d">>, <<>>),
      K8sObject("v", "PersistentVolumeClaim", <<"d", "-", "w", "-", "0">>, <<>>),
      K8sObject("k", "PersistentVolumeClaim", <<"w">>, <<>>) }

\* the lists of up to max distinct elements of S, in every order
RECURSIVE Orderings(_, _)
Orderings(S, max) ==
    IF max = 0 THEN {<<>>}
    ELSE LET shorter == Orderings(S, max - 1)
             longest == {l \in shorter : Len(l) = max - 1}
         IN  shorter \cup
             {Append(x[1], x[2]) :
                 x \in {y \in longest \X S : \A i \in 1..Len(y[1]) : y[1][i] # y[2]}}

\* the parts of the cluster that are listed together: the owner references,
\* the Services and Endpoints, the StatefulSets and claims
K8sScenes ==
    { {"n", "b", "c", "g", "x", "y"},
      {"n", "b", "s", "e", "q", "f"},
      {"n", "e", "t", "u", "v", "k"} }

TreeInputs ==
    UNION {Orderings({o \in K8sUniverse : o.uid[1] \in scene}, MaxTreeObjects) :
              scene \in K8sScenes}

TreeInit ==
    /\ clusterID = <<"a">>
    /\ conf = [DryRun |-> FALSE, MaxGoRoutines |-> MaxRoutines, PageSize |-> DefaultPageSize]
    /\ pc = "GetK8sTree"
    /\ ret = "running"
    /\ logins = 1
    /\ client = TRUE
    /\ heads = 1
    /\ fetchingId = "fetching-id"
    /\ dcIdx = Len(dataCollectors) + 1
    /\ \E objs \in TreeInputs :
          fullData = [k8s_objects |-> objs, helm_releases |-> <<>>,
                      k8s_types |-> TypeUniverse]
    /\ k8sTree = <<>>
    /\ stdout = FALSE
    /\ fam = "none"
    /\ chunks = [f \in Families |-> <<>>]
    /\ next = 1
    /\ sem = 0
    /\ wst = [f \in Families |-> <<>>]
    /\ gerr = [f \in Families |-> 0]
    /\ finished = {"helm"}
    /\ commits = 0
    /\ commitOk = FALSE
    /\ env = EnvOf(conf)
    /\ put = NoPut

TreeNext == CallGetK8sTree

SpecTree == TreeInit /\ [][TreeNext]_vars

(***************************************************************************)
(* Properties of the forest.  They relate the objects GetK8sTree is called *)
(* with (fullData.k8s_objects before the call) to the forest it returns    *)
(* (k8sTree after the call).                                               *)
(***************************************************************************)
\* the uids of the nodes of a forest, parents first, every occurrence
RECURSIVE ForestUids(_)
ForestUids(forest) ==
    IF Len(forest) = 0 THEN <<>>
    ELSE <<forest[1].uid>> \o ForestUids(forest[1].children)
            \o ForestUids(Tail(forest))

Occurrences(uid, forest) ==
    Cardinality({i \in 1..Len(ForestUids(forest)) : ForestUids(forest)[i] = uid})

\* the nodes of a forest, at every depth
RECURSIVE ForestNodes(_)
ForestNodes(forest) ==
    IF Len(forest) = 0 THEN {}
    ELSE {forest[1]} \cup ForestNodes(forest[1].children) \cup ForestNodes(Tail(forest))

InForest(uid, forest) == \E node \in ForestNodes(forest) : node.uid = uid

IsRoot(uid, forest) == \E i \in 1..Len(forest) : forest[i].uid = uid

\* some node of uid parent has a child of uid child
ChildOf(child, parent, forest) ==
    \E node \in ForestNodes(forest) :
        node.uid = parent /\ \E k \in 1..Len(node.children) : node.children[k].uid = child

HasPrefix(s, prefix) ==
    Len(prefix) <= Len(s) /\ SubSeq(s, 1, Len(prefix)) = prefix

\* the name of a claim without its last dash-separated part
ClaimBase(obj) ==
    LET parts == Split(obj.name, "-")
    IN  Join(SubSeq(parts, 1, Len(parts) - 1), "-")

HasDash(obj) == \E i \in 1..Len(obj.name) : obj.name[i] = "-"

\* the objects of the input that the heuristics can make the owner of obj
SyntheticOwners(obj, objects) ==
    LET others == {objects[i] : i \in 1..Len(objects)}
    IN  CASE obj.kind = "Endpoints" ->
                {o.uid : o \in {p \in others :
                    p.kind = "Service" /\ p.ns = obj.ns /\ p.name = obj.name}}
          [] obj.kind = "PersistentVolume" ->
                {o.uid : o \in {p \in others :
                    /\ p.kind = "PersistentVolumeClaim"
                    /\ obj.name = <<"p", "v", "c", "-">> \o p.uid}}
          [] obj.kind = "PersistentVolumeClaim" ->
                {o.uid : o \in {p \in others :
                    /\ p.kind = "StatefulSet" /\ p.ns = obj.ns /\ HasDash(obj)
                    /\ HasSuffix(ClaimBase(obj), p.name)}}
          [] OTHER -> {}

\* the owners of obj once the synthetic ones are set
EffectiveOwners(obj, objects) ==
    IF Len(obj.owners) > 0 THEN {obj.owners[k] : k \in 1..Len(obj.owners)}
    ELSE SyntheticOwners(obj, objects)

\* the transitive closure of a relation over at most n elements
RECURSIVE Closure(_, _)
Closure(E, n) ==
    IF n = 0 THEN E
    ELSE LET C == Closure(E, n - 1)
         IN  C \cup {<<x[1][1], x[2][2]>> : x \in {y \in C \X C : y[1][2] = y[2][1]}}

\* the owner references of the objects hold a cycle
Cyclic(objects) ==
    LET E == UNION {{<<objects[i].uid, objects[i].owners[k]>> :
                        k \in 1..Len(objects[i].owners)} : i \in 1..Len(objects)}
    IN  \E e \in Closure(E, Len(objects)) : e[1] = e[2]

\* C15: the roots of the forest are the input objects that have no owner
\* reference and get no synthetic owner, each of them once as a root and
\* nowhere else in the forest; an Endpoints with a Service of its namespace
\* and name is no root
RootsComplete ==
    [][CallGetK8sTree =>
        LET objects == fullData.k8s_objects
            forest == k8sTree'
            rootless == {objects[i].uid : i \in {j \in 1..Len(objects) :
                            EffectiveOwners(objects[j], objects) = {}}}
        IN  /\ {forest[i].uid : i \in 1..Len(forest)} = rootless
            /\ \A i, j \in 1..Len(forest) : forest[i].uid = forest[j].uid => i = j
            /\ \A u \in rootless : Occurrences(u, forest) = 1]_vars

\* a Service is a root with its Endpoints below it, next to another root
RootsCompleteWitness ==
    /\ pc = "sendK8sTree"
    /\ Len(k8sTree) = 2
    /\ \E i \in 1..Len(k8sTree) :
          /\ k8sTree[i].kind = "Service"
          /\ Len(k8sTree[i].children) = 1
          /\ k8sTree[i].children[1].kind = "Endpoints"
    /\ Len(fullData.k8s_objects) = 3

\* C16: no uid is twice in the forest, also when an object has several
\* owners that are all in the forest; here for the inputs without a cycle
NoDuplication ==
    [][(CallGetK8sTree /\ ~Cyclic(fullData.k8s_objects)) =>
        \A i \in 1..Len(fullData.k8s_objects) :
            Occurrences(fullData.k8s_objects[i].uid, k8sTree') <= 1]_vars

\* C17: an object with an owner reference to U is among the children of
\* every node of uid U in the forest; here for the inputs without a cycle
ChildAttached ==
    [][(CallGetK8sTree /\ ~Cyclic(fullData.k8s_objects)) =>
        \A i \in 1..Len(fullData.k8s_objects) :
            LET obj == fullData.k8s_objects[i]
            IN  \A k \in 1..Len(obj.owners) :
                    \A node \in ForestNodes(k8sTree') :
                        node.uid = obj.owners[k] =>
                            \E c \in 1..Len(node.children) :
                                node.children[c].uid = obj.uid]_vars

\* C18: an object with owners, explicit or synthetic, none of which is a
\* node of the forest, is nowhere in the forest
OrphansOmitted ==
    [][CallGetK8sTree =>
        \A i \in 1..Len(fullData.k8s_objects) :
            LET obj == fullData.k8s_objects[i]
                owners == EffectiveOwners(obj, fullData.k8s_objects)
            IN  (owners # {} /\ \A u \in owners : ~InForest(u, k8sTree'))
                    => ~InForest(obj.uid, k8sTree')]_vars

\* the Service q, whose owner is missing, and its Endpoints f are left out
\* of a forest that has a root
OrphansOmittedWitness ==
    /\ pc = "sendK8sTree"
    /\ \E i \in 1..Len(fullData.k8s_objects) : fullData.k8s_objects[i].uid = <<"q">>
    /\ \E i \in 1..Len(fullData.k8s_objects) : fullData.k8s_objects[i].uid = <<"f">>
    /\ Len(k8sTree) >= 1
    /\ ~InForest(<<"q">>, k8sTree)
    /\ ~InForest(<<"f">>, k8sTree)

\* C19 as stated: a claim without owner references is put below a
\* StatefulSet of its namespace exactly when the name of the StatefulSet is
\* a prefix of the claim's name without its index
PvcOwnerIsPrefix ==
    [][CallGetK8sTree =>
        \A i, j \in 1..Len(fullData.k8s_objects) :
            LET obj == fullData.k8s_objects[i]
                set == fullData.k8s_objects[j]
            IN  (/\ obj.kind = "PersistentVolumeClaim" /\ Len(obj.owners) = 0
                 /\ set.kind = "StatefulSet" /\ set.ns = obj.ns
                 /\ ChildOf(obj.uid, set.uid, k8sTree'))
                    => HasDash(obj) /\ HasPrefix(ClaimBase(obj), set.name)]_vars

\* C19 amended: a claim without owner references is put below one
\* StatefulSet of its namespace whose name is a suffix of the claim's name
\* without its index, below no StatefulSet whose name is no such suffix, and
\* a claim without a dash stays a root
PvcOwnerIsSuffix ==
    [][CallGetK8sTree =>
        \A i \in 1..Len(fullData.k8s_objects) :
            LET objects == fullData.k8s_objects
                obj == objects[i]
                sets == {objects[j] : j \in {l \in 1..Len(objects) :
                            objects[l].kind = "StatefulSet"}}
                matching == {set \in sets :
                                /\ set.ns = obj.ns /\ HasDash(obj)
                                /\ HasSuffix(ClaimBase(obj), set.name)}
            IN  (obj.kind = "PersistentVolumeClaim" /\ Len(obj.owners) = 0) =>
                    /\ \A set \in sets \ matching : ~ChildOf(obj.uid, set.uid, k8sTree')
                    /\ matching = {} => IsRoot(obj.uid, k8sTree')
                    /\ matching # {} =>
                          /\ ~IsRoot(obj.uid, k8sTree')
                          /\ \E set \in matching :
                                InForest(set.uid, k8sTree')
                                    => ChildOf(obj.uid, set.uid, k8sTree')
                          /\ Occurrences(obj.uid, k8sTree') <= 1]_vars

\* the claim d-w-0 is below the StatefulSet w, and the StatefulSet d and the
\* claim w are roots without children
PvcOwnerIsSuffixWitness ==
    /\ pc = "sendK8sTree"
    /\ Len(k8sTree) = 3
    /\ ChildOf(<<"v">>, <<"t">>, k8sTree)
    /\ \E i \in 1..Len(k8sTree) :
          k8sTree[i].uid = <<"u">> /\ Len(k8sTree[i].children) = 0
    /\ \E i \in 1..Len(k8sTree) :
          k8sTree[i].uid = <<"k">> /\ Len(k8sTree[i].children) = 0

\* C20: when the owner references hold a cycle, Run fails with the error of
\* GetK8sTree
CyclicOwnershipFails ==
    [][(CallGetK8sTree /\ Cyclic(fullData.k8s_objects)) =>
        (pc' = "done" /\ ret' = "failed getting k8s objects tree")]_vars

\* C21: GetK8sTree leaves every input object as it was, its owner references
\* included
InputUnchanged ==
    [][CallGetK8sTree => fullData'.k8s_objects = fullData.k8s_objects]_vars

(***************************************************************************)
(* Properties of Run as a whole.                                           *)
(***************************************************************************)
\* GetK8sTree has returned
TreeBuilt ==
    \/ pc = "sendK8sTree"
    \/ pc = "dispatch" /\ fam = "tree"
    \/ "tree" \in finished

\* C22: no page of any family is POSTed before GetK8sTree has returned
NoPostBeforeTree ==
    \A f \in Families : AnyPostIssued(f) => TreeBuilt

\* C23: the failure of a data collector is not fatal when another data
\* collector has succeeded
PartialFailureNotFatal ==
    ret = "collector failed" => dcIdx = 1

\* C24: a dry run issues no request to the remote service; it ends with the
\* collected data on standard output, or with the error of a data collector
\* or of the encoder
DryRunIsLocal ==
    conf.DryRun =>
        /\ NoRemoteRequest
        /\ ~client
        /\ \A f \in Families : chunks[f] = <<>>
        /\ (pc = "done" /\ ret = "nil") => stdout
        /\ stdout => (pc = "done" /\ ret = "nil")

DryRunIsLocalWitness ==
    /\ conf.DryRun
    /\ pc = "done"
    /\ ret = "nil"
    /\ stdout
    /\ Len(fullData.k8s_objects) >= 2
    /\ Len(fullData.helm_releases) >= 1

\* the number of owner references of the objects
RECURSIVE TotalRefs(_)
TotalRefs(objects) ==
    IF Len(objects) = 0 THEN 0
    ELSE Len(objects[1].owners) + TotalRefs(Tail(objects))

\* the objects that get a synthetic owner reference
SyntheticChildren(objects) ==
    {i \in 1..Len(objects) :
        Len(objects[i].owners) = 0 /\ SyntheticOwners(objects[i], objects) # {}}

\* C28: GetK8sTree returns on every input, also with cyclic owner references
\* and with several owners: every node below a root has consumed one owner
\* reference, explicit or synthetic, so the forest has at most as many such
\* nodes as the input has references
TreeTerminates ==
    [][CallGetK8sTree =>
        LET before == TotalRefs(fullData.k8s_objects)
                         + Cardinality(SyntheticChildren(fullData.k8s_objects))
            after == TotalRefs(fullData'.k8s_objects)
        IN  /\ pc' = "sendK8sTree"
            /\ Len(ForestUids(k8sTree')) - Len(k8sTree') = before - after
            /\ Len(ForestUids(k8sTree')) <= Len(k8sTree') + before]_vars

\* the forest n -> x -> y -> x of the objects that own each other
TreeTerminatesWitness ==
    /\ pc = "sendK8sTree"
    /\ ForestUids(k8sTree) = << <<"n">>, <<"x">>, <<"y">>, <<"x">> >>
    /\ TotalRefs(fullData.k8s_objects) = 0

(***************************************************************************)
(* Run under the Go scheduler: a goroutine that can take a step eventually *)
(* takes one, and every HTTP request returns.                              *)
(***************************************************************************)
FairSpec == Spec /\ WF_vars(Next)

\* C29: whatever MaxGoRoutines is, 0 included, the dispatch of a family with
\* at least one page finishes: every page is handed to a goroutine and the
\* wait on the group returns
DispatchFinishes == (pc = "dispatch") ~> (pc # "dispatch")

(***************************************************************************)
(* The start of the program: config.LoadConfig, then the Run that         *)
(* authenticates, runs the Kubernetes object collector and sends all the  *)
(* collected data in one PUT request (collector.go:1338-1394).            *)
(***************************************************************************)
CollectInit ==
    /\ clusterID \in {<<"a">>, <<" ">>}
    /\ env \in Envs
    /\ conf = NilConfig
    /\ pc = "LoadConfig"
    /\ ret = "running"
    /\ logins = 0
    /\ client = FALSE
    /\ heads = 0
    /\ fetchingId = ""
    /\ dcIdx = 1
    /\ fullData = [k8s_objects |-> <<>>, helm_releases |-> <<>>, k8s_types |-> <<>>]
    /\ k8sTree = <<>>
    /\ stdout = FALSE
    /\ fam = "none"
    /\ chunks = [f \in Families |-> <<>>]
    /\ next = 1
    /\ sem = 0
    /\ wst = [f \in Families |-> <<>>]
    /\ gerr = [f \in Families |-> 0]
    /\ finished = {}
    /\ commits = 0
    /\ commitOk = FALSE
    /\ put = NoPut

\* main: LoadConfig, and the panic on its error
CallLoadConfig ==
    /\ pc = "LoadConfig"
    /\ LET loaded == LoadConfig(env)
       IN  IF loaded.err # "nil"
           THEN conf' = loaded.conf /\ Return(loaded.err)
           ELSE conf' = loaded.conf /\ pc' = "RunV1" /\ ret' = ret
    /\ UNCHANGED <<env, put, clusterID, logins, client, heads, fetchingId, dataVars,
                   groupVars, commitVars>>

\* Run: the cluster ID check and f.authenticate, one login request
RunV1Authenticate ==
    /\ pc = "RunV1"
    /\ IF ~MatchString(clusterID)
       THEN Return("invalid cluster ID") /\ UNCHANGED <<logins, client>>
       ELSE /\ logins' = logins + 1
            /\ \E ok \in BOOLEAN :
                  IF ok
                  THEN client' = TRUE /\ pc' = "RunV1.dataCollectors" /\ ret' = ret
                  ELSE client' = client /\ Return("failed authenticating")
    /\ UNCHANGED <<env, put, clusterID, conf, heads, fetchingId, dataVars, groupVars,
                   commitVars>>

\* Run: the loop over the data collectors, here the Kubernetes object
\* collector; any collector error ends the run
RunV1Collect ==
    /\ pc = "RunV1.dataCollectors"
    /\ LET r == k8sRun(conf, env)
       IN  IF r.err
           THEN Return("collector failed") /\ UNCHANGED fullData
           ELSE /\ fullData' = [fullData EXCEPT ![r.keyName] = r.objects]
                /\ pc' = "RunV1.send"
                /\ ret' = ret
    /\ UNCHANGED <<env, put, clusterID, conf, logins, client, heads, fetchingId, dcIdx,
                   k8sTree, stdout, groupVars, commitVars>>

\* f.send: one PUT request whose body is the collected data
RunV1Send ==
    /\ pc = "RunV1.send"
    /\ put' = [k8s_objects |-> fullData.k8s_objects]
    /\ \E ok \in BOOLEAN :
          IF ok THEN Return("nil") ELSE Return("failed sending")
    /\ UNCHANGED <<env, clusterID, conf, logins, client, heads, fetchingId, dataVars,
                   groupVars, commitVars>>

CollectNext ==
    \/ CallLoadConfig
    \/ RunV1Authenticate
    \/ RunV1Collect
    \/ RunV1Send

SpecCollect == CollectInit /\ [][CollectNext]_vars

\* C25: LoadConfig fails with ErrAccessKeys, and gives no configuration, exactly
\* when dryRun is false and the access key or the secret key is empty (so a
\* dry run succeeds with empty keys), and nothing was requested from any
\* server when it fails
AccessKeysRequired ==
    pc # "LoadConfig" =>
        LET missing == ~env.dryRun /\ (env.accessKey = "" \/ env.secretKey = "")
        IN  /\ (ret = "ErrAccessKeys") <=> missing
            /\ (conf = NilConfig) <=> missing
            /\ missing => pc = "done" /\ NoRemoteRequest /\ ~client

AccessKeysRequiredWitness ==
    /\ pc = "done"
    /\ ret = "ErrAccessKeys"
    /\ env.accessKey = "key"
    /\ env.secretKey = ""

\* the objects of a kind that its fetch function lists: those of the server
\* that the namespace filter does not ignore
KeptItems(kind) ==
    SelectSeq(ApiItems[kind], LAMBDA item : ~IgnoreNamespace(conf, item.ns))

Sent(kind, item) ==
    \E i \in 1..Len(put.k8s_objects) :
        put.k8s_objects[i] = [kind |-> kind, object |-> item]

\* C26: the payload sent to the server holds no object of a kind whose fetch
\* flag is false, and holds, tagged with its kind, every object of an enabled
\* kind whose listing succeeded
DisabledKindsNotSent ==
    put # NoPut =>
        /\ \A i \in 1..Len(put.k8s_objects) :
              /\ conf.Fetch[put.k8s_objects[i].kind]
              /\ put.k8s_objects[i].kind \notin env.apiFails
              /\ includes(ApiItems[put.k8s_objects[i].kind], put.k8s_objects[i].object)
        /\ \A kind \in FetchKindSet :
              (conf.Fetch[kind] /\ kind \notin env.apiFails) =>
                  \A j \in 1..Len(KeptItems(kind)) : Sent(kind, KeptItems(kind)[j])

DisabledKindsNotSentWitness ==
    /\ put # NoPut
    /\ env.resources["ConfigMap"] = "false"
    /\ ~conf.Fetch["ConfigMap"]
    /\ "ConfigMap" \notin env.apiFails
    /\ Sent("Pod", [ns |-> "d", name |-> "p"])
    /\ Sent("Pod", [ns |-> "k", name |-> "q"])

\* C27: when conf.Namespace is not empty, only objects of that namespace are
\* collected, and IgnoreNamespaces plays no part
WatchNamespaceOnly ==
    (pc = "RunV1.send" /\ conf.Namespace # "") =>
        /\ \A i \in 1..Len(fullData.k8s_objects) :
              fullData.k8s_objects[i].object.ns = conf.Namespace
        /\ \A kind \in FetchKindSet :
              (conf.Fetch[kind] /\ kind \notin env.apiFails) =>
                  \A j \in 1..Len(ApiItems[kind]) :
                      ApiItems[kind][j].ns = conf.Namespace =>
                          includes(fullData.k8s_objects,
                                   [kind |-> kind, object |-> ApiItems[kind][j]])

\* the kinds whose fetch function the collector invokes
Invoked == {kind \in FetchKindSet : conf.Fetch[kind]}

\* the collector has returned
Collected == ret = "collector failed" \/ pc = "RunV1.send" \/ put # NoPut

\* C30: the Kubernetes object collector returns an error whenever every fetch
\* function it invoked failed, whatever kinds are disabled, and no error when
\* an invoked fetch function succeeded
AllInvokedFailedIsError ==
    Collected =>
        /\ (Invoked # {} /\ Invoked \subseteq env.apiFails) => ret = "collector failed"
        /\ (Invoked \ env.apiFails # {}) => ret # "collector failed"

====
